---- MODULE Spec2Model ----
(***************************************************************************)
(* Model of storage_logic.py: the hour-by-hour dispatch of a battery       *)
(* under time-of-use pricing.  main() annotates the hourly table           *)
(* `results` with seven flow columns and the column storage_available,     *)
(* scanning the hours in increasing order; each hour one of five handlers  *)
(* writes the flows of hour i and the charge level of hour i+1.            *)
(*                                                                         *)
(* Real quantities are exact rationals <<numerator, denominator>> in       *)
(* lowest terms with a positive denominator, so that the efficiency        *)
(* multiplications and divisions of the source are computed, not           *)
(* abstracted.  Floating-point rounding is not modelled.                   *)
(***************************************************************************)
EXTENDS Integers, Sequences, FiniteSets, TLC

VARIABLES results, system_param, i, pc, fired, level_read, level_made

vars == <<results, system_param, i, pc, fired, level_read, level_made>>

(* Longest hourly series explored. *)
MaxHours == 3

(* Longest hourly series explored for the runs of off-peak hours. *)
MaxLongHours == 6

----------------------------------------------------------------------------
(* Exact rational arithmetic standing for Python's float operators.        *)

Abs(x) == IF x < 0 THEN -x ELSE x

RECURSIVE GCD(_, _)
GCD(a, b) == IF b = 0 THEN a ELSE GCD(b, a % b)

Norm(n, d) ==
    LET s == IF d < 0 THEN -1 ELSE 1
        g == GCD(Abs(n), Abs(d))
    IN  IF n = 0 THEN <<0, 1>> ELSE <<(s * n) \div g, (s * d) \div g>>

R(n) == <<n, 1>>

Zero == R(0)

RAdd(a, b) == Norm(a[1] * b[2] + b[1] * a[2], a[2] * b[2])

RSub(a, b) == Norm(a[1] * b[2] - b[1] * a[2], a[2] * b[2])

RMul(a, b) == Norm(a[1] * b[1], a[2] * b[2])

RDiv(a, b) == Norm(a[1] * b[2], a[2] * b[1])

RLe(a, b) == a[1] * b[2] <= b[1] * a[2]

RLt(a, b) == a[1] * b[2] < b[1] * a[2]

RGe(a, b) == RLe(b, a)

----------------------------------------------------------------------------
(* The inputs: the hourly table (USAGE, period) and the system parameters. *)
(* The parameter sets tried are a battery of size 4 with floor 1, charge   *)
(* rate 3 and every efficiency 1/2 or 1 (so that a headroom of 1, 2 or 3   *)
(* meets each off-peak branch), and five malformed sets (size 0,           *)
(* floor = size, negative rate, an efficiency of 2).                       *)

Hours(res) == DOMAIN res.USAGE

Len0(res) == Cardinality(DOMAIN res.USAGE)

(* Demands and period labels a well-formed hour carries: the two labels    *)
(* the source names and the off-peak label.                                *)
ValidDemands == {R(0), R(1), R(3)}

RecognizedPeriods == {"peak", "int", "offpeak"}

(* The hours tried: every well-formed one, a negative demand, and a label  *)
(* that is none of the three.                                              *)
HourRecords ==
    {<<d, p>> : d \in ValidDemands, p \in RecognizedPeriods}
        \cup {<<R(-1), "peak">>, <<R(1), "unknown">>}

Half == <<1, 2>>

Efficiencies == {Half, R(1)}

Param(size, floor, rate, bc, bd, ic, id) ==
    [StorageSize |-> size, BatDepleted |-> floor, MaxChargeRate |-> rate,
     BatteryEfficiency |-> [charging |-> bc, discharging |-> bd],
     InverterEfficiency |-> [charging |-> ic, discharging |-> id]]

ValidParamSets ==
    {Param(R(4), R(1), rate, bc, bd, ic, id) :
        rate \in {R(3)}, bc \in Efficiencies, bd \in Efficiencies,
        ic \in Efficiencies, id \in Efficiencies}

InvalidParamSets ==
    {Param(R(0), R(0), R(3), R(1), R(1), R(1), R(1)),
     Param(R(4), R(4), R(3), R(1), R(1), R(1), R(1)),
     Param(R(4), R(1), R(-1), R(1), R(1), R(1), R(1)),
     Param(R(4), R(1), R(3), R(1), R(1), R(1), R(2)),
     Param(R(4), R(1), R(3), R(1), R(2), Half, R(1))}

(* What the specification calls valid parameters and a valid record (the   *)
(* source checks neither); the properties below are stated under them.     *)
EffOK(e) == RLt(Zero, e) /\ RLe(e, R(1))

ValidParams(sp) ==
    /\ RLt(Zero, sp.StorageSize)
    /\ RLe(Zero, sp.BatDepleted) /\ RLt(sp.BatDepleted, sp.StorageSize)
    /\ RLe(Zero, sp.MaxChargeRate)
    /\ \A dir \in {"charging", "discharging"} :
          EffOK(sp.BatteryEfficiency[dir]) /\ EffOK(sp.InverterEfficiency[dir])

ValidRecord(res, k) ==
    RLe(Zero, res.USAGE[k]) /\ res.period[k] \in RecognizedPeriods

ValidInputs == ValidParams(system_param) /\ \A k \in Hours(results) : ValidRecord(results, k)

----------------------------------------------------------------------------
(* Column helpers.                                                         *)

zeros_like(series) == [k \in DOMAIN series |-> Zero]

FlowCols ==
    {"inverter_to_storage", "storage_to_inverter", "inverter_to_demand",
     "grid_to_inverter", "grid_to_demand_peak", "grid_to_demand_offpeak"}

----------------------------------------------------------------------------
(* The five handlers.  Each computes its values in the source's order (a    *)
(* later line reads what an earlier line of the same handler wrote) and    *)
(* writes the flows of hour k and the charge level of hour k + 1.          *)

(* Faulty variant: the new level is written over hour k's own level        *)
(* instead of hour k + 1's.  C8's property rejects it.                     *)
peak_battery_only_SameHour(res, sp, k) ==
    LET inverter_to_demand  == RDiv(res.USAGE[k], sp.InverterEfficiency["discharging"])
        storage_to_inverter == RDiv(inverter_to_demand, sp.BatteryEfficiency["discharging"])
    IN  [res EXCEPT
            !["inverter_to_demand"][k] = inverter_to_demand,
            !["storage_to_inverter"][k] = storage_to_inverter,
            !["storage_available"][k] = RSub(res.storage_available[k], storage_to_inverter),
            !["inverter_to_storage"][k] = Zero,
            !["grid_to_inverter"][k] = Zero,
            !["grid_to_demand_peak"][k] = Zero,
            !["grid_to_demand_offpeak"][k] = Zero]

peak_battery_only(res, sp, k) ==
    LET inverter_to_demand  == RDiv(res.USAGE[k], sp.InverterEfficiency["discharging"])
        storage_to_inverter == RDiv(inverter_to_demand, sp.BatteryEfficiency["discharging"])
    IN  [res EXCEPT
            !["inverter_to_demand"][k] = inverter_to_demand,
            !["storage_to_inverter"][k] = storage_to_inverter,
            !["storage_available"][k + 1] = RSub(res.storage_available[k], storage_to_inverter),
            !["inverter_to_storage"][k] = Zero,
            !["grid_to_inverter"][k] = Zero,
            !["grid_to_demand_peak"][k] = Zero,
            !["grid_to_demand_offpeak"][k] = Zero]

(* Faulty variant: the grid is made to cover the whole demand instead of   *)
(* the difference.  C4's property rejects it.                              *)
peak_battery_and_grid_GridCoversAll(res, sp, k) ==
    LET storage_to_inverter == RMul(RSub(res.storage_available[k], sp.BatDepleted),
                                    sp.BatteryEfficiency["discharging"])
        inverter_to_demand  == RMul(storage_to_inverter, sp.InverterEfficiency["discharging"])
    IN  [res EXCEPT
            !["storage_to_inverter"][k] = storage_to_inverter,
            !["inverter_to_demand"][k] = inverter_to_demand,
            !["storage_available"][k + 1] = sp.BatDepleted,
            !["grid_to_demand_peak"][k] = res.USAGE[k],
            !["inverter_to_storage"][k] = Zero,
            !["grid_to_inverter"][k] = Zero,
            !["grid_to_demand_offpeak"][k] = Zero]

(* Faulty variant: the next level is the level less the flow out of the    *)
(* battery, as in the battery-only handler, instead of the floor.  C19's   *)
(* property rejects it.                                                    *)
peak_battery_and_grid_SubtractsFlow(res, sp, k) ==
    LET storage_to_inverter == RMul(RSub(res.storage_available[k], sp.BatDepleted),
                                    sp.BatteryEfficiency["discharging"])
        inverter_to_demand  == RMul(storage_to_inverter, sp.InverterEfficiency["discharging"])
    IN  [res EXCEPT
            !["storage_to_inverter"][k] = storage_to_inverter,
            !["inverter_to_demand"][k] = inverter_to_demand,
            !["storage_available"][k + 1] = RSub(res.storage_available[k], storage_to_inverter),
            !["grid_to_demand_peak"][k] = RSub(res.USAGE[k], inverter_to_demand),
            !["inverter_to_storage"][k] = Zero,
            !["grid_to_inverter"][k] = Zero,
            !["grid_to_demand_offpeak"][k] = Zero]

peak_battery_and_grid(res, sp, k) ==
    LET storage_to_inverter == RMul(RSub(res.storage_available[k], sp.BatDepleted),
                                    sp.BatteryEfficiency["discharging"])
        inverter_to_demand  == RMul(storage_to_inverter, sp.InverterEfficiency["discharging"])
    IN  [res EXCEPT
            !["storage_to_inverter"][k] = storage_to_inverter,
            !["inverter_to_demand"][k] = inverter_to_demand,
            !["storage_available"][k + 1] = sp.BatDepleted,
            !["grid_to_demand_peak"][k] = RSub(res.USAGE[k], inverter_to_demand),
            !["inverter_to_storage"][k] = Zero,
            !["grid_to_inverter"][k] = Zero,
            !["grid_to_demand_offpeak"][k] = Zero]

offpeak_store_to_cap(res, sp, k) ==
    LET inverter_to_storage == RDiv(RSub(sp.StorageSize, res.storage_available[k]),
                                    sp.BatteryEfficiency["charging"])
    IN  [res EXCEPT
            !["grid_to_demand_offpeak"][k] = res.USAGE[k],
            !["inverter_to_storage"][k] = inverter_to_storage,
            !["grid_to_inverter"][k] = RDiv(inverter_to_storage, sp.InverterEfficiency["charging"]),
            !["storage_available"][k + 1] = sp.StorageSize,
            !["storage_to_inverter"][k] = Zero,
            !["inverter_to_demand"][k] = Zero,
            !["grid_to_demand_peak"][k] = Zero]

offpeak_store_partial(res, sp, k) ==
    LET inverter_to_storage == RDiv(sp.MaxChargeRate, sp.BatteryEfficiency["charging"])
    IN  [res EXCEPT
            !["grid_to_demand_offpeak"][k] = res.USAGE[k],
            !["storage_available"][k + 1] = RAdd(res.storage_available[k], sp.MaxChargeRate),
            !["inverter_to_storage"][k] = inverter_to_storage,
            !["grid_to_inverter"][k] = RDiv(inverter_to_storage, sp.InverterEfficiency["charging"]),
            !["storage_to_inverter"][k] = Zero,
            !["inverter_to_demand"][k] = Zero,
            !["grid_to_demand_peak"][k] = Zero]

(* Faulty variant: the grid purchase is written into the following hour.   *)
(* C11's property rejects it.                                              *)
offpeak_battery_full_NextHourFlow(res, sp, k) ==
    [res EXCEPT
        !["grid_to_demand_offpeak"][k + 1] = res.USAGE[k],
        !["grid_to_inverter"][k] = Zero,
        !["inverter_to_storage"][k] = Zero,
        !["storage_available"][k + 1] = sp.StorageSize,
        !["storage_to_inverter"][k] = Zero,
        !["inverter_to_demand"][k] = Zero,
        !["grid_to_demand_peak"][k] = Zero]

(* Faulty variant: a full battery's level is carried over as it is         *)
(* instead of being set to the capacity.  C17's property rejects it.       *)
offpeak_battery_full_KeepsLevel(res, sp, k) ==
    [res EXCEPT
        !["grid_to_demand_offpeak"][k] = res.USAGE[k],
        !["grid_to_inverter"][k] = Zero,
        !["inverter_to_storage"][k] = Zero,
        !["storage_available"][k + 1] = res.storage_available[k],
        !["storage_to_inverter"][k] = Zero,
        !["inverter_to_demand"][k] = Zero,
        !["grid_to_demand_peak"][k] = Zero]

offpeak_battery_full(res, sp, k) ==
    [res EXCEPT
        !["grid_to_demand_offpeak"][k] = res.USAGE[k],
        !["grid_to_inverter"][k] = Zero,
        !["inverter_to_storage"][k] = Zero,
        !["storage_available"][k + 1] = sp.StorageSize,
        !["storage_to_inverter"][k] = Zero,
        !["inverter_to_demand"][k] = Zero,
        !["grid_to_demand_peak"][k] = Zero]

----------------------------------------------------------------------------
(* The branch conditions of main's loop body.                              *)

AtEnd(res, k) == k = Len0(res) - 1

(* Faulty variant: the intermediate label is forgotten.  C7's property     *)
(* rejects it.                                                             *)
PeakHours_PeakOnly(res, k) == res.period[k] = "peak"

PeakHours(res, k) == res.period[k] = "peak" \/ res.period[k] = "int"

(* Faulty variant: the depleted floor is left out of the deliverable       *)
(* energy.  C2's property rejects it.                                      *)
EnoughInBattery_IgnoresFloor(res, sp, k) ==
    RGe(RMul(RMul(res.storage_available[k], sp.BatteryEfficiency["discharging"]),
             sp.InverterEfficiency["discharging"]),
        res.USAGE[k])

EnoughInBattery(res, sp, k) ==
    RGe(RMul(RMul(RSub(res.storage_available[k], sp.BatDepleted),
                  sp.BatteryEfficiency["discharging"]),
             sp.InverterEfficiency["discharging"]),
        res.USAGE[k])

BatteryNotFull(res, sp, k) == RLt(res.storage_available[k], sp.StorageSize)

NearlyFull(res, sp, k) ==
    RLe(RSub(sp.StorageSize, res.storage_available[k]),
        RMul(sp.InverterEfficiency["charging"], sp.MaxChargeRate))

----------------------------------------------------------------------------
(* main(): the zero-initialisation, then one action per way through the    *)
(* loop body.  fired, level_read and level_made record, for each hour,     *)
(* the handler main called, the level it read to choose it, and the level  *)
(* the handler wrote for the next hour.                                    *)

NoHours(res) == [k \in Hours(res) |-> "none"]

Init ==
    /\ \E n \in 1..MaxHours : \E series \in [0..(n - 1) -> HourRecords] :
          results = [USAGE |-> [k \in 0..(n - 1) |-> series[k][1]],
                     period |-> [k \in 0..(n - 1) |-> series[k][2]]]
    /\ system_param \in ValidParamSets \cup InvalidParamSets
    /\ i = 0
    /\ pc = "start"
    /\ fired = NoHours(results)
    /\ level_read = [k \in Hours(results) |-> Zero]
    /\ level_made = [k \in Hours(results) |-> Zero]

(* Faulty variant: on a table that already has a storage_available column  *)
(* the battery starts at that column's last level instead of full.  C12's  *)
(* property rejects it.                                                    *)
InitColumns_CarriesLevel(res, sp) ==
    LET z == zeros_like(res.USAGE)
        start == IF "storage_available" \in DOMAIN res
                 THEN res.storage_available[Len0(res) - 1]
                 ELSE sp.StorageSize
    IN  [c \in DOMAIN res \cup {"storage_available"} \cup FlowCols |->
            IF c = "storage_available" THEN [z EXCEPT ![0] = start]
            ELSE IF c \in FlowCols THEN z
            ELSE res[c]]

InitColumns(res, sp) ==
    LET z == zeros_like(res.USAGE)
    IN  [c \in DOMAIN res \cup {"storage_available"} \cup FlowCols |->
            IF c = "storage_available" THEN [z EXCEPT ![0] = sp.StorageSize]
            ELSE IF c \in FlowCols THEN z
            ELSE res[c]]

Initialize ==
    /\ pc = "start"
    /\ results' = InitColumns(results, system_param)
    /\ i' = 0
    /\ pc' = "loop"
    /\ UNCHANGED <<system_param, fired, level_read, level_made>>

Break ==
    /\ pc = "loop"
    /\ AtEnd(results, i)
    /\ pc' = "done"
    /\ UNCHANGED <<results, system_param, i, fired, level_read, level_made>>

Call(name, res) ==
    /\ results' = res
    /\ fired' = [fired EXCEPT ![i] = name]
    /\ level_read' = [level_read EXCEPT ![i] = results.storage_available[i]]
    /\ level_made' = [level_made EXCEPT ![i] = res.storage_available[i + 1]]
    /\ i' = i + 1
    /\ UNCHANGED <<system_param, pc>>

PeakBatteryOnly ==
    /\ pc = "loop"
    /\ ~AtEnd(results, i)
    /\ PeakHours(results, i)
    /\ EnoughInBattery(results, system_param, i)
    /\ Call("peak_battery_only", peak_battery_only(results, system_param, i))

PeakBatteryAndGrid ==
    /\ pc = "loop"
    /\ ~AtEnd(results, i)
    /\ PeakHours(results, i)
    /\ ~EnoughInBattery(results, system_param, i)
    /\ Call("peak_battery_and_grid", peak_battery_and_grid(results, system_param, i))

OffpeakStoreToCap ==
    /\ pc = "loop"
    /\ ~AtEnd(results, i)
    /\ ~PeakHours(results, i)
    /\ BatteryNotFull(results, system_param, i)
    /\ NearlyFull(results, system_param, i)
    /\ Call("offpeak_store_to_cap", offpeak_store_to_cap(results, system_param, i))

OffpeakStorePartial ==
    /\ pc = "loop"
    /\ ~AtEnd(results, i)
    /\ ~PeakHours(results, i)
    /\ BatteryNotFull(results, system_param, i)
    /\ ~NearlyFull(results, system_param, i)
    /\ Call("offpeak_store_partial", offpeak_store_partial(results, system_param, i))

OffpeakBatteryFull ==
    /\ pc = "loop"
    /\ ~AtEnd(results, i)
    /\ ~PeakHours(results, i)
    /\ ~BatteryNotFull(results, system_param, i)
    /\ Call("offpeak_battery_full", offpeak_battery_full(results, system_param, i))

Next ==
    \/ Initialize
    \/ Break
    \/ PeakBatteryOnly
    \/ PeakBatteryAndGrid
    \/ OffpeakStoreToCap
    \/ OffpeakStorePartial
    \/ OffpeakBatteryFull

Spec == Init /\ [][Next]_vars

(* The same program started on well-formed inputs only: every hour a       *)
(* valid record, every parameter set a valid one.                          *)
InitValid ==
    /\ \E n \in 1..MaxHours :
          \E series \in [0..(n - 1) -> ValidDemands \X RecognizedPeriods] :
              results = [USAGE |-> [k \in 0..(n - 1) |-> series[k][1]],
                         period |-> [k \in 0..(n - 1) |-> series[k][2]]]
    /\ system_param \in ValidParamSets
    /\ i = 0
    /\ pc = "start"
    /\ fired = NoHours(results)
    /\ level_read = [k \in Hours(results) |-> Zero]
    /\ level_made = [k \in Hours(results) |-> Zero]

SpecValid == InitValid /\ [][Next]_vars

(* The same program started on longer series of fewer kinds of hour (a     *)
(* peak hour of demand 1 or 3, an off-peak hour of demand 0), with charge  *)
(* rates 1 and 3: the runs of consecutive off-peak hours.                  *)
LongRecords == {<<R(1), "peak">>, <<R(3), "peak">>, <<R(0), "offpeak">>}

LongParamSets ==
    {Param(R(4), R(1), rate, bc, bd, ic, id) :
        rate \in {R(1), R(3)}, bc \in Efficiencies, bd \in Efficiencies,
        ic \in Efficiencies, id \in Efficiencies}

InitLong ==
    /\ \E n \in 1..MaxLongHours : \E series \in [0..(n - 1) -> LongRecords] :
          results = [USAGE |-> [k \in 0..(n - 1) |-> series[k][1]],
                     period |-> [k \in 0..(n - 1) |-> series[k][2]]]
    /\ system_param \in LongParamSets
    /\ i = 0
    /\ pc = "start"
    /\ fired = NoHours(results)
    /\ level_read = [k \in Hours(results) |-> Zero]
    /\ level_made = [k \in Hours(results) |-> Zero]

SpecLong == InitLong /\ [][Next]_vars

----------------------------------------------------------------------------
(* main() as a function of the table and the parameters it is called       *)
(* with: the loop body's choice of handler, the loop, and the call.        *)

Dispatch(res, sp, k) ==
    IF PeakHours(res, k)
    THEN IF EnoughInBattery(res, sp, k)
         THEN peak_battery_only(res, sp, k)
         ELSE peak_battery_and_grid(res, sp, k)
    ELSE IF BatteryNotFull(res, sp, k)
         THEN IF NearlyFull(res, sp, k)
              THEN offpeak_store_to_cap(res, sp, k)
              ELSE offpeak_store_partial(res, sp, k)
         ELSE offpeak_battery_full(res, sp, k)

RECURSIVE RunFrom(_, _, _)
RunFrom(res, sp, k) ==
    IF AtEnd(res, k) THEN res ELSE RunFrom(Dispatch(res, sp, k), sp, k + 1)

main(res, sp) == RunFrom(InitColumns(res, sp), sp, 0)

----------------------------------------------------------------------------
(* Properties.  Col(c, k) is the table's value of column c at hour k;      *)
(* Processed(k) says main called a handler for hour k.                     *)

Col(c, k) == results[c][k]

Level(k) == results.storage_available[k]

Processed(k) == fired[k] # "none"

Last == Len0(results) - 1

IsPeak(k) == results.period[k] \in {"peak", "int"}

IsOffpeak(k) == results.period[k] = "offpeak"

Positive(x) == RLt(Zero, x)

(* C1: for valid parameters and non-negative demands, the level written    *)
(* for the next hour is within [0, storage_size] after every processed     *)
(* hour, the partial-charge hours included.                                *)
C1_NextLevelWithinCapacity ==
    (ValidInputs /\ pc # "start") =>
        \A k \in Hours(results) :
            Processed(k) =>
                /\ RLe(Zero, Level(k + 1))
                /\ RLe(Level(k + 1), system_param.StorageSize)

(* C2: for valid parameters and non-negative demands, the level is never   *)
(* below the depleted floor: not at the start of any hour reached, not     *)
(* after a peak hour of either mode, not after an off-peak hour.           *)
C2_NeverBelowFloor ==
    (ValidInputs /\ pc # "start") =>
        \A k \in Hours(results) :
            /\ k <= i => RGe(Level(k), system_param.BatDepleted)
            /\ Processed(k) => RGe(Level(k + 1), system_param.BatDepleted)

(* C2's case: the battery-only mode fired with the deliverable energy      *)
(* exactly equal to a positive demand, and left the battery at the floor;  *)
(* and the battery-plus-grid mode fired too.                               *)
C2_Witness ==
    /\ ValidInputs
    /\ \E k \in Hours(results) :
          /\ fired[k] = "peak_battery_only"
          /\ Positive(results.USAGE[k])
          /\ Level(k + 1) = system_param.BatDepleted
    /\ \E k \in Hours(results) : fired[k] = "peak_battery_and_grid"

(* C3: where the battery-only mode fires, inverter_to_demand equals the    *)
(* demand exactly and grid_to_demand_peak is 0, for every discharging      *)
(* efficiency in (0,1].                                                    *)
C3_BatteryOnlyDeliversDemand ==
    ValidInputs =>
        \A k \in Hours(results) :
            fired[k] = "peak_battery_only" =>
                /\ Col("inverter_to_demand", k) = results.USAGE[k]
                /\ Col("grid_to_demand_peak", k) = Zero

(* C4: where the battery-plus-grid mode fires, the next level is exactly   *)
(* the floor, inverter_to_demand + grid_to_demand_peak is the demand, and  *)
(* inverter_to_demand is (start - floor) x battery efficiency x inverter   *)
(* efficiency (discharging).                                               *)
C4_BatteryAndGridReconstructsDemand ==
    \A k \in Hours(results) :
        fired[k] = "peak_battery_and_grid" =>
            /\ Level(k + 1) = system_param.BatDepleted
            /\ RAdd(Col("inverter_to_demand", k), Col("grid_to_demand_peak", k))
                  = results.USAGE[k]
            /\ Col("inverter_to_demand", k)
                  = RMul(RMul(RSub(Level(k), system_param.BatDepleted),
                              system_param.BatteryEfficiency["discharging"]),
                         system_param.InverterEfficiency["discharging"])

(* C4's case: the mode fired with both the battery and the grid            *)
(* contributing, under a lossy discharge.                                  *)
C4_Witness ==
    /\ ValidInputs
    /\ RLt(system_param.InverterEfficiency["discharging"], R(1))
    /\ \E k \in Hours(results) :
          /\ fired[k] = "peak_battery_and_grid"
          /\ Positive(Col("inverter_to_demand", k))
          /\ Positive(Col("grid_to_demand_peak", k))

(* C5: after the run, every off-peak hour of the series has                *)
(* grid_to_demand_offpeak equal to its demand and both discharge channels  *)
(* 0.                                                                      *)
C5_OffpeakDemandFromGrid ==
    (ValidInputs /\ pc = "done") =>
        \A k \in Hours(results) :
            IsOffpeak(k) =>
                /\ Col("grid_to_demand_offpeak", k) = results.USAGE[k]
                /\ Col("storage_to_inverter", k) = Zero
                /\ Col("inverter_to_demand", k) = Zero

(* C6: after the run, the final hour has its flows computed like any       *)
(* other: off-peak, its demand is bought from the grid; peak or            *)
(* intermediate, inverter_to_demand + grid_to_demand_peak covers it.       *)
C6_FinalHourFlowsComputed ==
    (ValidInputs /\ pc = "done") =>
        /\ IsOffpeak(Last) =>
              Col("grid_to_demand_offpeak", Last) = results.USAGE[Last]
        /\ IsPeak(Last) =>
              RAdd(Col("inverter_to_demand", Last), Col("grid_to_demand_peak", Last))
                  = results.USAGE[Last]

Charging(k) ==
    Col("inverter_to_storage", k) # Zero \/ Col("grid_to_inverter", k) # Zero

Discharging(k) ==
    Col("storage_to_inverter", k) # Zero \/ Col("inverter_to_demand", k) # Zero

(* C7: in every off-peak hour the discharge channels and                   *)
(* grid_to_demand_peak are 0, in every peak or intermediate hour the       *)
(* charge channels and grid_to_demand_offpeak are 0, and no hour has both  *)
(* a charging and a discharging flow.                                      *)
C7_ChannelsExclusiveByPeriod ==
    pc # "start" =>
        \A k \in Hours(results) :
            /\ IsOffpeak(k) =>
                  ~Discharging(k) /\ Col("grid_to_demand_peak", k) = Zero
            /\ IsPeak(k) =>
                  ~Charging(k) /\ Col("grid_to_demand_offpeak", k) = Zero
            /\ ~(Charging(k) /\ Discharging(k))

(* C7's case: a finished run with an intermediate hour that discharged     *)
(* and an off-peak hour that charged.                                      *)
C7_Witness ==
    /\ pc = "done"
    /\ \E k \in Hours(results) : results.period[k] = "int" /\ Discharging(k)
    /\ \E k \in Hours(results) : IsOffpeak(k) /\ Charging(k)

(* C8: hour 0 is evaluated with the battery at storage_size; each later    *)
(* hour is evaluated from the level the hour before it produced; and a     *)
(* level once handed on stays in the table as it was handed on.            *)
C8_ChargeCarry ==
    pc # "start" =>
        /\ Level(0) = system_param.StorageSize
        /\ \A k \in Hours(results) :
              Processed(k) =>
                  /\ k = 0 => level_read[k] = system_param.StorageSize
                  /\ k > 0 => level_read[k] = level_made[k - 1]
                  /\ Level(k + 1) = level_made[k]

(* C8's case: two hours processed, the first of which changed the level.   *)
C8_Witness ==
    /\ pc = "done"
    /\ Last >= 2
    /\ Processed(1)
    /\ level_made[0] # system_param.StorageSize
    /\ level_made[1] # level_made[0]

(* C9: a run with invalid parameters is stopped before any hour is         *)
(* processed: no handler is ever called for any hour of it.                *)
C9_InvalidParametersRejected ==
    ~ValidParams(system_param) =>
        \A k \in Hours(results) : ~Processed(k)

(* C10: an hour with a negative demand or an unrecognized period label is  *)
(* never dispatched by any mode (the run is stopped at that hour), so no   *)
(* level derived from it reaches a later hour.                             *)
C10_InvalidRecordRejected ==
    ValidParams(system_param) =>
        \A k \in Hours(results) : Processed(k) => ValidRecord(results, k)

Input(res) == [USAGE |-> res.USAGE, period |-> res.period]

Outputs(res) == [c \in FlowCols \cup {"storage_available"} |-> res[c]]

(* C12: a second call of main, on the bare series or on the table the      *)
(* first call returned (annotated columns and all), returns exactly the    *)
(* table the first call returned.                                          *)
C12_SecondRunIdentical ==
    pc = "done" =>
        /\ main(results, system_param) = results
        /\ main(Input(results), system_param) = results

(* C12's case: the first run has returned a table whose flows are not all  *)
(* zero and whose last level is not the full battery.                      *)
C12_Witness ==
    /\ pc = "done"
    /\ Level(Last) # system_param.StorageSize
    /\ \E k \in Hours(results) : Charging(k)
    /\ \E k \in Hours(results) : Discharging(k)

SwapLabel(res, k) ==
    [res EXCEPT !["period"][k] = IF @ = "peak" THEN "int" ELSE "peak"]

(* C13: relabelling any one peak hour as intermediate, or any one          *)
(* intermediate hour as peak, leaves every output field of every hour      *)
(* as it was.                                                              *)
C13_IntermediateSameAsPeak ==
    pc = "done" =>
        \A k \in Hours(results) :
            IsPeak(k) =>
                Outputs(main(SwapLabel(Input(results), k), system_param))
                    = Outputs(results)

(* C13's case: a finished run in which an intermediate hour was served by  *)
(* battery and grid and a peak hour by the battery alone.                  *)
C13_Witness ==
    /\ pc = "done"
    /\ \E k \in Hours(results) :
          results.period[k] = "int" /\ fired[k] = "peak_battery_and_grid"
    /\ \E k \in Hours(results) :
          /\ results.period[k] = "peak"
          /\ fired[k] = "peak_battery_only"
          /\ Positive(results.USAGE[k])

(* C14: for valid inputs, inverter_to_storage never exceeds                *)
(* max_charge_rate in any hour, whatever the charging efficiencies.        *)
C14_ChargeWithinMaxRate ==
    (ValidInputs /\ pc # "start") =>
        \A k \in Hours(results) :
            RLe(Col("inverter_to_storage", k), system_param.MaxChargeRate)

(* C15: where the battery-only mode fires, storage_to_inverter is          *)
(* inverter_to_demand / inverter efficiency (discharging) and the level    *)
(* falls by storage_to_inverter / battery efficiency (discharging).        *)
C15_BatteryOnlyChain ==
    ValidInputs =>
        \A k \in Hours(results) :
            fired[k] = "peak_battery_only" =>
                /\ Col("storage_to_inverter", k)
                      = RDiv(Col("inverter_to_demand", k),
                             system_param.InverterEfficiency["discharging"])
                /\ RSub(Level(k), Level(k + 1))
                      = RDiv(Col("storage_to_inverter", k),
                             system_param.BatteryEfficiency["discharging"])

(* C16: in every processed peak or intermediate hour, of either mode,      *)
(* level drop >= storage_to_inverter >= inverter_to_demand >=              *)
(* demand - grid_to_demand_peak, and the battery stage (resp. the inverter *)
(* stage) is an equality only if the battery (resp. inverter) discharging  *)
(* efficiency is 1 or the flow is 0.                                       *)
C16_DischargeLosesEnergy ==
    ValidInputs =>
        \A k \in Hours(results) :
            (Processed(k) /\ IsPeak(k)) =>
                LET drop == RSub(Level(k), Level(k + 1))
                    s2i  == Col("storage_to_inverter", k)
                    i2d  == Col("inverter_to_demand", k)
                    met  == RSub(results.USAGE[k], Col("grid_to_demand_peak", k))
                IN  /\ RGe(drop, s2i) /\ RGe(s2i, i2d) /\ RGe(i2d, met)
                    /\ drop = s2i =>
                          \/ system_param.BatteryEfficiency["discharging"] = R(1)
                          \/ s2i = Zero
                    /\ s2i = i2d =>
                          \/ system_param.InverterEfficiency["discharging"] = R(1)
                          \/ i2d = Zero

(* The least integer >= the rational x. *)
Ceil(x) == -((-x[1]) \div x[2])

(* ceil((storage_size - floor) / max_charge_rate) + 1 *)
ChargeHoursBound ==
    Ceil(RDiv(RSub(system_param.StorageSize, system_param.BatDepleted),
              system_param.MaxChargeRate)) + 1

(* Hours s .. s + m - 1 are processed off-peak hours. *)
OffpeakRun(s, m) ==
    \A k \in s..(s + m - 1) : k \in Hours(results) /\ Processed(k) /\ IsOffpeak(k)

(* C17: for valid inputs with max_charge_rate > 0, in any run of           *)
(* consecutive off-peak hours the level is exactly storage_size after at   *)
(* most ceil((storage_size - floor) / max_charge_rate) + 1 hours, and an   *)
(* off-peak hour that starts at storage_size ends at storage_size with     *)
(* inverter_to_storage = grid_to_inverter = 0.                             *)
C17_OffpeakRunFillsBattery ==
    (ValidInputs /\ Positive(system_param.MaxChargeRate) /\ pc # "start") =>
        \A s \in Hours(results) :
            /\ OffpeakRun(s, ChargeHoursBound) =>
                  \E m \in 0..ChargeHoursBound :
                      Level(s + m) = system_param.StorageSize
            /\ (OffpeakRun(s, 1) /\ Level(s) = system_param.StorageSize) =>
                  /\ Level(s + 1) = system_param.StorageSize
                  /\ Col("inverter_to_storage", s) = Zero
                  /\ Col("grid_to_inverter", s) = Zero

(* C17's case: an off-peak run that starts below capacity, needs the       *)
(* whole bound to come to exactly storage_size, and then stays there for   *)
(* a further hour.                                                         *)
C17_Witness ==
    /\ ValidInputs
    /\ \E s \in Hours(results) :
          /\ OffpeakRun(s, ChargeHoursBound + 1)
          /\ \A m \in 0..(ChargeHoursBound - 1) :
                Level(s + m) # system_param.StorageSize
          /\ Level(s + ChargeHoursBound) = system_param.StorageSize
          /\ Level(s + ChargeHoursBound + 1) = system_param.StorageSize

(* C18: for valid inputs, no processed peak or intermediate hour ends      *)
(* with more charge than it started with and no processed off-peak hour    *)
(* ends with less.                                                         *)
C18_MonotoneWithinClass ==
    ValidInputs =>
        \A k \in Hours(results) :
            Processed(k) =>
                /\ IsPeak(k) => RLe(Level(k + 1), Level(k))
                /\ IsOffpeak(k) => RGe(Level(k + 1), Level(k))

(* C19: in a peak or intermediate hour, grid_to_demand_peak > 0 only if    *)
(* the hour leaves the battery exactly at the depleted floor.              *)
C19_BatteryBeforeGrid ==
    pc # "start" =>
        \A k \in Hours(results) :
            (IsPeak(k) /\ Positive(Col("grid_to_demand_peak", k))) =>
                Processed(k) /\ Level(k + 1) = system_param.BatDepleted

(* C19's case: one peak hour bought from the grid, and another ended       *)
(* above the floor on the battery alone with a positive demand.            *)
C19_Witness ==
    /\ pc # "start"
    /\ \E k \in Hours(results) :
          IsPeak(k) /\ Positive(Col("grid_to_demand_peak", k))
    /\ \E k \in Hours(results) :
          /\ IsPeak(k) /\ Processed(k)
          /\ Positive(results.USAGE[k])
          /\ RLt(system_param.BatDepleted, Level(k + 1))

(* C20: for valid inputs, every flow channel and the level of every hour   *)
(* are non-negative, grid_to_demand_peak never exceeds the demand of a     *)
(* peak or intermediate hour, and the battery-plus-grid mode is never      *)
(* entered with the battery below the floor.                               *)
C20_FlowsNonNegative ==
    (ValidInputs /\ pc # "start") =>
        \A k \in Hours(results) :
            /\ \A c \in FlowCols : RLe(Zero, Col(c, k))
            /\ RLe(Zero, Level(k))
            /\ IsPeak(k) => RLe(Col("grid_to_demand_peak", k), results.USAGE[k])
            /\ fired[k] = "peak_battery_and_grid" =>
                  RGe(Level(k), system_param.BatDepleted)

(* C20's case: the battery-plus-grid mode entered with the battery         *)
(* exactly at the floor, so that the whole demand came from the grid,      *)
(* after an hour that drew the battery down.                               *)
C20_Witness ==
    /\ ValidInputs
    /\ \E k \in Hours(results) :
          /\ fired[k] = "peak_battery_and_grid"
          /\ Level(k) = system_param.BatDepleted
          /\ Col("grid_to_demand_peak", k) = results.USAGE[k]
    /\ \E k \in Hours(results) : Positive(Col("storage_to_inverter", k))

====
